---- MODULE Spec2Model ----
(***************************************************************************)
(* Model of actions/version-python/check_semver.py: the semantic-version   *)
(* bump validator and tag allocator.  One run of main() is a sequence of   *)
(* steps (StartRun, ValidatePackage per package, Reconcile, Emit); between *)
(* runs the surrounding workflow creates the emitted tag, lands branches   *)
(* on the reference branch and publishes pre-releases to the registry.     *)
(* The two sibling validators, scripts/version_check.py and                *)
(* actions/version-balena/scripts/check_version_bump.py, are one run each  *)
(* (read, then check) on their own state.                                  *)
(***************************************************************************)
EXTENDS Integers, Sequences, FiniteSets, TLC

\* ------------------------------------------------------------------ bounds
MaxComp == 1      \* major, minor and micro of a declared version range over 0..MaxComp
MaxPropDev == 0   \* dev suffix of a declared version ranges over 0..MaxPropDev
MaxDev == 1       \* tags and registry entries are created up to devMaxDev
MaxTags == 2      \* number of version tags in the repository
MaxPublished == 1 \* number of pre-releases published to the registry
MaxPkgs == 2      \* number of src/*/__init__.py packages in a run
MaxNames == 3     \* number of tag names of a repository taken as given (SpecResolve)
MaxField == 2     \* major, minor and patch of version.json and balena.yml range over 0..MaxField

VARIABLES
    tags,            \* names of the tags `git tag --list v*` shows
    reachable,       \* the tags `git tag --merged origin/<base_ref>` shows
    registry,        \* version strings published for the primary package
    pc,              \* position of the run: idle, loop, reconcile, emit, done
    isPr,            \* detect_ci_context(): pull request (TRUE) or merge to main
    gitOk,           \* the git calls of this run return code 0
    regStatus,       \* registry of this run: unconfigured, error or ok
    npkgs,           \* len(package_inits)
    idx,             \* next package of the loop over package_inits
    main_v,          \* latest_version_on_main(base_ref)
    declared,        \* the text read from each package's __init__.py so far
    failures,        \* main(): failures
    rows,            \* main(): rows
    proposed_bases,  \* main(): proposed_bases
    tag,             \* what write_github_output received (NoTag: nothing)
    exitCode,        \* exit status of the run (Running while it runs)
    vcheck,          \* the run of scripts/version_check.py
    balena,          \* the run of version-balena/scripts/check_version_bump.py
    earlier          \* the output an earlier run of check_semver.py left with its workflow

vars == <<tags, reachable, registry, pc, isPr, gitOk, regStatus, npkgs, idx,
          main_v, declared, failures, rows, proposed_bases, tag, exitCode,
          vcheck, balena, earlier>>

\* ---------------------------------------------------------------- versions
\* packaging.version.Version restricted to X.Y.Z[.devN]; dev = NoDev is `dev is None`.
NoDev == -1

Ver(M, m, p, d) == [major |-> M, minor |-> m, micro |-> p, dev |-> d]

\* Python's None, where the code holds a Version or None.
None == Ver(-1, -1, -1, NoDev)

Zero == Ver(0, 0, 0, NoDev)

\* Version(f"{v.major}.{v.minor}.{v.micro}")
BaseOf(v) == Ver(v.major, v.minor, v.micro, NoDev)

\* v.is_prerelease and v.dev is not None
IsDev(v) == v.dev # NoDev

\* Version.__lt__ (PEP 440): release segment first, then devN < final, devs by number.
VLess(a, b) ==
    \/ a.major < b.major
    \/ a.major = b.major /\ a.minor < b.minor
    \/ a.major = b.major /\ a.minor = b.minor /\ a.micro < b.micro
    \/ /\ a.major = b.major /\ a.minor = b.minor /\ a.micro = b.micro
       /\ \/ IsDev(a) /\ ~IsDev(b)
          \/ IsDev(a) /\ IsDev(b) /\ a.dev < b.dev

VLeq(a, b) == a = b \/ VLess(a, b)

\* max(...) of a non-empty set of versions
VMax(S) == CHOOSE v \in S : \A w \in S : VLeq(w, v)

\* ------------------------------------------------------------------- tags
\* A tag name vX.Y.Z is the tuple <<X, Y, Z>>, vX.Y.Z.devN is <<X, Y, Z, N>>.
NoTag == <<>>

\* f"v{base.major}.{base.minor}.{base.micro}"
FinalTag(base) == <<base.major, base.minor, base.micro>>

\* f"v{base.major}.{base.minor}.{base.micro}.dev{devn}"
DevTag(base, devn) == <<base.major, base.minor, base.micro, devn>>

\* TAG_SEMVER_RE.fullmatch(t) and the Version built from its groups
TagVersion(t) ==
    IF Len(t) = 3 THEN Ver(t[1], t[2], t[3], NoDev)
    ELSE Ver(t[1], t[2], t[3], t[4])

\* re.fullmatch(rf"v{major}\.{minor}\.{micro}\.dev(\d+)", t)
IsDevTagOf(t, base) ==
    Len(t) = 4 /\ t[1] = base.major /\ t[2] = base.minor /\ t[3] = base.micro

\* TAG_SEMVER_RE.fullmatch(t): vX.Y.Z or vX.Y.Z.devN; a name such as vX.Y is
\* the tuple <<X, Y>> and does not match.
TAG_SEMVER_RE(t) == Len(t) \in {3, 4}

\* A plausible slip: the `--merged` restriction is lost, every tag counts.
list_semver_tags_unrestricted ==
    IF ~gitOk THEN {}
    ELSE {TagVersion(t) : t \in {u \in tags : TAG_SEMVER_RE(u)}}

\* list_semver_tags(merged_ref): the versions of the tags merged into the ref
list_semver_tags ==
    IF ~gitOk THEN {}
    ELSE {TagVersion(t) : t \in {u \in tags \cap reachable : TAG_SEMVER_RE(u)}}

latest_version_on_main ==
    IF list_semver_tags = {} THEN Zero ELSE VMax(list_semver_tags)

\* A plausible slip: only the tags merged into the reference branch are looked at.
has_final_tag_for_base_merged_only(base) == gitOk /\ FinalTag(base) \in reachable

has_final_tag_for_base(base) == gitOk /\ FinalTag(base) \in tags

has_dev_tag_for_base(base) == gitOk /\ \E t \in tags : IsDevTagOf(t, base)

SetMax(S, start) == IF S = {} THEN start ELSE CHOOSE n \in S : \A k \in S : k <= n

\* A plausible slip: only the tags merged into the reference branch are scanned.
next_dev_number_for_base_merged_only(base, mv) ==
    LET s0 == IF IsDev(mv) /\ BaseOf(mv) = base THEN mv.dev ELSE -1
        scanned == IF gitOk
                   THEN {t[4] : t \in {u \in tags \cap reachable : IsDevTagOf(u, base)}}
                   ELSE {}
    IN  SetMax(scanned \cup {s0}, s0) + 1

\* A plausible slip: the highest dev number seen is returned, not the one after it.
next_dev_number_for_base_highest_seen(base, mv) ==
    LET s0 == IF IsDev(mv) /\ BaseOf(mv) = base THEN mv.dev ELSE 0
        scanned == IF gitOk THEN {t[4] : t \in {u \in tags : IsDevTagOf(u, base)}} ELSE {}
    IN  SetMax(scanned \cup {s0}, s0)

next_dev_number_for_base(base, mv) ==
    LET s0 == IF IsDev(mv) /\ BaseOf(mv) = base THEN mv.dev ELSE -1
        scanned == IF gitOk THEN {t[4] : t \in {u \in tags : IsDevTagOf(u, base)}} ELSE {}
    IN  SetMax(scanned \cup {s0}, s0) + 1

\* A plausible slip: any base above the release base passes (skipped versions too).
is_exact_one_step_base_any_greater(base, mv) == ~VLeq(base, BaseOf(mv))

\* A plausible slip: the `base <= main_base` test is lost together with the reset
\* of the lower components, so a base one step away in one component passes.
is_exact_one_step_base_any_other(base, mv) == base # BaseOf(mv)

is_exact_one_step_base(base, mv) ==
    /\ ~VLeq(base, BaseOf(mv))
    /\ base \in { Ver(mv.major + 1, 0, 0, NoDev),
                  Ver(mv.major, mv.minor + 1, 0, NoDev),
                  Ver(mv.major, mv.minor, mv.micro + 1, NoDev) }

\* ---------------------------------------------------------------- registry
\* list_dev_versions_from_codeartifact: published versions matching base.devN
list_dev_versions_from_codeartifact(base) ==
    {v \in registry : IsDev(v) /\ BaseOf(v) = base}

\* next_dev_number_from_codeartifact: None (NoDev) when it cannot query; reg is
\* what the environment and the aws calls of this run give
next_dev_number_from_codeartifact(base, reg) ==
    IF reg # "ok" THEN NoDev
    ELSE LET versions == list_dev_versions_from_codeartifact(base)
         IN  IF versions = {} THEN 0
             ELSE SetMax({v.dev : v \in versions}, 0) + 1

\* ------------------------------------------------------------ declarations
\* The text of a package's __init__.py: no __version__ line ("none"), a
\* __version__ string packaging rejects ("bad"), or a version X.Y.Z[.devN] ("ver").
Comps == 0..MaxComp

DeclaredVersions ==
    {Ver(M, m, p, d) : M \in Comps, m \in Comps, p \in Comps,
                       d \in {NoDev} \cup (0..MaxPropDev)}

Texts ==
    {[kind |-> "none", v |-> None], [kind |-> "bad", v |-> None]}
        \cup {[kind |-> "ver", v |-> v] : v \in DeclaredVersions}

\* A plausible slip: a file without __version__ is read as version 0.0.0.
parse_version_from_text_default_zero(text) ==
    IF text.kind = "ver" THEN [ok |-> TRUE, v |-> text.v]
    ELSE IF text.kind = "none" THEN [ok |-> TRUE, v |-> Zero]
    ELSE [ok |-> FALSE, v |-> None]

\* parse_version_from_text: ok = FALSE stands for the ValueError it raises
parse_version_from_text(text) ==
    IF text.kind = "ver" THEN [ok |-> TRUE, v |-> text.v]
    ELSE [ok |-> FALSE, v |-> None]

\* ------------------------------------------------------------------ rules
\* A plausible slip: the last branch is `ok = True`, any other base passes.
pr_rules_ok_without_one_step(proposed_base, mv) ==
    IF IsDev(mv) THEN proposed_base = BaseOf(mv)
    ELSE IF proposed_base = BaseOf(mv) THEN ~has_final_tag_for_base(BaseOf(mv))
    ELSE TRUE

\* A plausible slip: the release base passes without the look for its final tag.
pr_rules_ok_same_base_always(proposed_base, mv) ==
    IF IsDev(mv) THEN proposed_base = BaseOf(mv)
    ELSE IF proposed_base = BaseOf(mv) THEN TRUE
    ELSE is_exact_one_step_base(proposed_base, mv)

\* main(), pull-request branch: ok for one package
pr_rules_ok(proposed_base, mv) ==
    IF IsDev(mv) THEN proposed_base = BaseOf(mv)
    ELSE IF proposed_base = BaseOf(mv) THEN ~has_final_tag_for_base(BaseOf(mv))
    ELSE is_exact_one_step_base(proposed_base, mv)

\* main(), merge-to-main branch: bootstrap_finish
bootstrap_finish(proposed_base, mv) ==
    /\ proposed_base = BaseOf(mv)
    /\ has_dev_tag_for_base(proposed_base)
    /\ ~has_final_tag_for_base(proposed_base)

\* A plausible slip: the dev suffix of the declared version is not looked at.
merge_rules_ok_ignoring_dev(pr_v, mv) ==
    \/ IsDev(mv) /\ BaseOf(pr_v) = BaseOf(mv)
    \/ is_exact_one_step_base(BaseOf(pr_v), mv)
    \/ bootstrap_finish(BaseOf(pr_v), mv)

\* A plausible slip: the pull-request rule for a pre-release release state is
\* copied into the merge branch, so only its own base passes.
merge_rules_ok_dev_same_base_only(pr_v, mv) ==
    IF IsDev(pr_v) THEN FALSE
    ELSE IF IsDev(mv) THEN BaseOf(pr_v) = BaseOf(mv)
    ELSE \/ is_exact_one_step_base(BaseOf(pr_v), mv)
         \/ bootstrap_finish(BaseOf(pr_v), mv)

\* A plausible slip: a merge accepts one-step bumps only.
merge_rules_ok_one_step_only(pr_v, mv) ==
    IF IsDev(pr_v) THEN FALSE ELSE is_exact_one_step_base(BaseOf(pr_v), mv)

\* main(), merge-to-main branch: ok for one package
merge_rules_ok(pr_v, mv) ==
    IF IsDev(pr_v) THEN FALSE
    ELSE \/ IsDev(mv) /\ BaseOf(pr_v) = BaseOf(mv)
         \/ is_exact_one_step_base(BaseOf(pr_v), mv)
         \/ bootstrap_finish(BaseOf(pr_v), mv)

\* A plausible slip: a pull request declaring a pre-release is also held to
\* exceed the release state.
rules_ok_dev_compared(pr_v, mv) ==
    IF isPr
    THEN pr_rules_ok(BaseOf(pr_v), mv) /\ (IsDev(pr_v) => VLess(mv, pr_v))
    ELSE merge_rules_ok(pr_v, mv)

\* ok of one package in the context of the run
rules_ok(pr_v, mv) ==
    IF isPr THEN pr_rules_ok(BaseOf(pr_v), mv) ELSE merge_rules_ok(pr_v, mv)

\* One entry of `failures`: its kind and what the message names (packages,
\* the release state, the declared version, the proposed bases).
Failure(kind, pkgs, mv, pr_v, bases) ==
    [kind |-> kind, pkgs |-> pkgs, main_v |-> mv, pr_v |-> pr_v, bases |-> bases]

\* f"[{pkg}] PR version read failed: {e}"
ReadFailure(pkg) == Failure("read", {pkg}, None, None, {})

\* A plausible slip: the message loses its f-string fields for the two versions.
InvalidFailure_without_versions(pkg, mv, pr_v) ==
    Failure(IF isPr THEN "invalid_pr" ELSE "invalid_merge", {pkg}, None, None, {})

\* f"[{pkg}] Invalid version relative to latest tag on main=..." or
\* f"[{pkg}] Invalid release version on merge: ..."
InvalidFailure(pkg, mv, pr_v) ==
    Failure(IF isPr THEN "invalid_pr" ELSE "invalid_merge", {pkg}, mv, pr_v, {})

\* "Multiple packages propose different base versions, which is not allowed: "
\* + ", ".join(sorted(str(b) for b in proposed_bases))
MultipleBasesFailure(bases) == Failure("multiple_bases", {}, None, None, bases)

\* A plausible slip: the disagreement of the packages is not reported.
reconcile_failures_unchecked(fs, bases) == fs

\* main(): `if proposed_bases: if len(proposed_bases) > 1: failures.append(...)`
reconcile_failures(fs, bases) ==
    IF Cardinality(bases) > 1 THEN Append(fs, MultipleBasesFailure(bases)) ELSE fs

\* One entry of `rows`: (pkg, main_v, pr_v, ok, base_str)
Row(pkg, mv, pr_v, ok) ==
    [pkg |-> pkg, main_v |-> mv, pr_v |-> pr_v, ok |-> ok,
     base |-> IF ok THEN BaseOf(pr_v) ELSE None]

\* ------------------------------------------------------------------- state
Running == -1

\* No version: the file or `git show origin/main:version.json` could not be read.
NoJson == [major |-> -1, minor |-> -1, patch |-> -1]

\* version_check.py before it reads anything
VcheckStart ==
    [pc |-> "start", current_version |-> NoJson, main_version |-> NoJson,
     tag |-> NoTag, exit |-> Running]

\* What `git show <commit>:balena.yml` gives: the file is not in the commit
\* ("missing"), git fails otherwise ("error"), the file has no valid `version:`
\* line ("noversion"), or it has the line `version: X.Y.Z` ("ver"); padded says
\* the digits are written with a leading zero, as in 01.2.3.
Content(kind, a, b, c, padded) ==
    [kind |-> kind, major |-> a, minor |-> b, patch |-> c, padded |-> padded]

\* Nothing read, nothing printed.
NoContent == Content("unread", -1, -1, -1, FALSE)

\* check_version_bump.py before it reads anything
BalenaStart ==
    [pc |-> "start", base_content |-> NoContent, head_content |-> NoContent,
     output |-> NoContent, exit |-> Running]

\* The output of a successful pull-request run, with the tags and the registry
\* answer it was computed from.
Outcome(t, ts, reg, published) ==
    [tag |-> t, tags |-> ts, reg |-> reg, registry |-> published]

\* No earlier run has left an output.
NoOutcome == Outcome(NoTag, {}, "unread", {})

Init ==
    /\ vcheck = VcheckStart
    /\ balena = BalenaStart
    /\ earlier = NoOutcome
    /\ tags = {}
    /\ reachable = {}
    /\ registry = {}
    /\ pc = "idle"
    /\ isPr = TRUE
    /\ gitOk = TRUE
    /\ regStatus = "unread"
    /\ npkgs = 0
    /\ idx = 1
    /\ main_v = Zero
    /\ declared = <<>>
    /\ failures = <<>>
    /\ rows = <<>>
    /\ proposed_bases = {}
    /\ tag = NoTag
    /\ exitCode = Running

\* What no step of a check_semver.py run touches: the sibling scripts and the
\* output an earlier run left.
scripts == <<vcheck, balena, earlier>>
repo == <<tags, reachable, registry>>
inputs == <<isPr, gitOk, npkgs>>

\* main() up to the loop: the release state, the packages, the context.
\* No package found: "No packages found under src/*/__init__.py", exit 1.
\* git_ok: whether the git calls of the run return code 0.
main_prologue(ctx, n, git_ok) ==
    /\ pc \in {"idle", "done"}
    /\ UNCHANGED <<scripts, repo>>
    /\ isPr' = ctx
    /\ gitOk' = git_ok
    /\ regStatus' = "unread"
    /\ npkgs' = n
    /\ main_v' = latest_version_on_main'
    /\ idx' = 1
    /\ declared' = <<>>
    /\ failures' = <<>>
    /\ rows' = <<>>
    /\ proposed_bases' = {}
    /\ tag' = NoTag
    /\ IF n = 0 THEN pc' = "done" /\ exitCode' = 1
       ELSE pc' = "loop" /\ exitCode' = Running

\* A run whose git calls succeed.
StartRun(ctx, n) == main_prologue(ctx, n, TRUE)

\* A run whose git calls return a non-zero code (no repository, no remote):
\* git() hands the CompletedProcess back, nothing is raised.
StartRunGitFails(ctx, n) == main_prologue(ctx, n, FALSE)

\* A plausible slip: the first failing package ends the run.
ValidatePackageFailFast(text) ==
    /\ pc = "loop"
    /\ declared' = Append(declared, text)
    /\ LET r == parse_version_from_text(text)
           ok == r.ok /\ rules_ok(r.v, main_v)
       IN  /\ rows' = IF r.ok THEN Append(rows, Row(idx, main_v, r.v, ok)) ELSE rows
           /\ proposed_bases' = IF ok THEN proposed_bases \cup {BaseOf(r.v)}
                                 ELSE proposed_bases
           /\ failures' = IF ok THEN failures
                           ELSE IF r.ok THEN Append(failures, InvalidFailure(idx, main_v, r.v))
                           ELSE Append(failures, ReadFailure(idx))
           /\ pc' = IF ~ok THEN "done" ELSE IF idx = npkgs THEN "reconcile" ELSE "loop"
           /\ exitCode' = IF ~ok THEN 1 ELSE exitCode
    /\ idx' = idx + 1
    /\ UNCHANGED <<scripts, repo, inputs, regStatus, main_v, tag>>

\* A plausible slip: a package is also held against the bases accepted before it.
ValidatePackage_against_earlier(text) ==
    /\ pc = "loop"
    /\ declared' = Append(declared, text)
    /\ LET r == parse_version_from_text(text)
           ok == rules_ok(r.v, main_v)
                 /\ (proposed_bases = {} \/ BaseOf(r.v) \in proposed_bases)
       IN  IF ~r.ok
           THEN /\ failures' = Append(failures, ReadFailure(idx))
                /\ UNCHANGED <<rows, proposed_bases>>
           ELSE /\ rows' = Append(rows, Row(idx, main_v, r.v, ok))
                /\ IF ok
                   THEN /\ proposed_bases' = proposed_bases \cup {BaseOf(r.v)}
                        /\ UNCHANGED failures
                   ELSE /\ failures' = Append(failures, InvalidFailure(idx, main_v, r.v))
                        /\ UNCHANGED proposed_bases
    /\ idx' = idx + 1
    /\ pc' = IF idx = npkgs THEN "reconcile" ELSE "loop"
    /\ UNCHANGED <<scripts, repo, inputs, regStatus, main_v, tag, exitCode>>

\* A plausible slip: `except Exception: continue`, the read failure is not recorded.
ValidatePackage_silent_read_failure(text) ==
    /\ pc = "loop"
    /\ declared' = Append(declared, text)
    /\ LET r == parse_version_from_text(text)
           ok == rules_ok(r.v, main_v)
       IN  IF ~r.ok
           THEN UNCHANGED <<failures, rows, proposed_bases>>
           ELSE /\ rows' = Append(rows, Row(idx, main_v, r.v, ok))
                /\ IF ok
                   THEN /\ proposed_bases' = proposed_bases \cup {BaseOf(r.v)}
                        /\ UNCHANGED failures
                   ELSE /\ failures' = Append(failures, InvalidFailure(idx, main_v, r.v))
                        /\ UNCHANGED proposed_bases
    /\ idx' = idx + 1
    /\ pc' = IF idx = npkgs THEN "reconcile" ELSE "loop"
    /\ UNCHANGED <<scripts, repo, inputs, regStatus, main_v, tag, exitCode>>

\* One iteration of `for init_file in package_inits`.
ValidatePackage(text) ==
    /\ pc = "loop"
    /\ declared' = Append(declared, text)
    /\ LET r == parse_version_from_text(text)
           ok == rules_ok(r.v, main_v)
       IN  IF ~r.ok
           THEN /\ failures' = Append(failures, ReadFailure(idx))
                /\ UNCHANGED <<rows, proposed_bases>>
           ELSE /\ rows' = Append(rows, Row(idx, main_v, r.v, ok))
                /\ IF ok
                   THEN /\ proposed_bases' = proposed_bases \cup {BaseOf(r.v)}
                        /\ UNCHANGED failures
                   ELSE /\ failures' = Append(failures, InvalidFailure(idx, main_v, r.v))
                        /\ UNCHANGED proposed_bases
    /\ idx' = idx + 1
    /\ pc' = IF idx = npkgs THEN "reconcile" ELSE "loop"
    /\ UNCHANGED <<scripts, repo, inputs, regStatus, main_v, tag, exitCode>>

\* A plausible slip: `if failures and not proposed_bases`, a tag is rendered as
\* soon as one package was accepted.
Reconcile_ignoring_failures ==
    /\ pc = "reconcile"
    /\ failures' = reconcile_failures(failures, proposed_bases)
    /\ IF proposed_bases = {} THEN pc' = "done" /\ exitCode' = 1
       ELSE pc' = "emit" /\ exitCode' = Running
    /\ UNCHANGED <<scripts, repo, inputs, regStatus, idx, main_v, declared, rows, proposed_bases, tag>>

\* After the loop: the multiple-bases failure, then exit 1 when failures is non-empty.
Reconcile ==
    /\ pc = "reconcile"
    /\ LET fs == reconcile_failures(failures, proposed_bases)
       IN  /\ failures' = fs
           /\ IF fs # <<>> THEN pc' = "done" /\ exitCode' = 1
              ELSE pc' = "emit" /\ exitCode' = Running
    /\ UNCHANGED <<scripts, repo, inputs, regStatus, idx, main_v, declared, rows, proposed_bases, tag>>

\* The registry as this run finds it: the AWS_* environment is incomplete
\* ("unconfigured"), a list-package-versions call fails ("error"), or every page
\* is listed ("ok").  Read in pull-request context only.
RegStatuses == {"unconfigured", "error", "ok"}

\* A plausible slip: `devn = ca or 0`, no scan of the local tags when the
\* registry cannot be queried.
render_tag_no_fallback(base, mv, reg) ==
    IF isPr
    THEN LET ca == next_dev_number_from_codeartifact(base, reg)
         IN  DevTag(base, IF ca = NoDev THEN 0 ELSE ca)
    ELSE FinalTag(base)

\* A plausible slip: the context test is lost, every tag carries a dev suffix.
render_tag_always_dev(base, mv, reg) ==
    LET ca == next_dev_number_from_codeartifact(base, reg)
        devn == IF ca = NoDev THEN next_dev_number_for_base(base, mv) ELSE ca
    IN  DevTag(base, devn)

\* A plausible change: the registry's number is folded with the local one.
render_tag_max_of_sources(base, mv, reg) ==
    IF isPr
    THEN LET ca == next_dev_number_from_codeartifact(base, reg)
             local == next_dev_number_for_base(base, mv)
         IN  DevTag(base, IF ca > local THEN ca ELSE local)
    ELSE FinalTag(base)

\* main(): devn and tag of the agreed base
render_tag(base, mv, reg) ==
    IF isPr
    THEN LET ca == next_dev_number_from_codeartifact(base, reg)
             devn == IF ca = NoDev THEN next_dev_number_for_base(base, mv) ELSE ca
         IN  DevTag(base, devn)
    ELSE FinalTag(base)

\* A plausible slip: the run creates the tag it renders (`git tag`) itself.
Emit_creating_tag(reg) ==
    /\ pc = "emit"
    /\ regStatus' = IF isPr /\ proposed_bases # {} THEN reg ELSE "unread"
    /\ IF proposed_bases = {}
       THEN tag' = NoTag /\ exitCode' = 1 /\ UNCHANGED repo
       ELSE /\ \E base \in proposed_bases : tag' = render_tag(base, main_v, reg)
            /\ exitCode' = 0
            /\ tags' = tags \cup {tag'}
            /\ UNCHANGED <<reachable, registry>>
    /\ pc' = "done"
    /\ UNCHANGED <<scripts, inputs, idx, main_v, declared, failures, rows, proposed_bases>>

\* Agreed base, tag, write_github_output.  next(iter(set())) raises StopIteration:
\* the run dies with a traceback and status 1.
Emit(reg) ==
    /\ pc = "emit"
    /\ regStatus' = IF isPr /\ proposed_bases # {} THEN reg ELSE "unread"
    /\ IF proposed_bases = {}
       THEN tag' = NoTag /\ exitCode' = 1
       ELSE /\ \E base \in proposed_bases : tag' = render_tag(base, main_v, reg)
            /\ exitCode' = 0
    /\ pc' = "done"
    /\ UNCHANGED <<scripts, repo, inputs, idx, main_v, declared, failures, rows, proposed_bases>>

\* What a failing run prints on stderr: the no-packages message, or the failures.
stderr_reasons ==
    IF npkgs = 0 THEN <<Failure("no_packages", {}, None, None, {})>> ELSE failures

\* ------------------------------------------------------------- environment
\* The process of the run has exited: nothing of it is left but its output.
Exited ==
    /\ pc' = "idle"
    /\ regStatus' = "unread"
    /\ npkgs' = 0
    /\ idx' = 1
    /\ main_v' = Zero
    /\ declared' = <<>>
    /\ failures' = <<>>
    /\ rows' = <<>>
    /\ proposed_bases' = {}
    /\ isPr' = TRUE
    /\ UNCHANGED <<scripts, gitOk, tag, exitCode>>

Emitted == pc \in {"done", "idle"} /\ exitCode = 0 /\ tag # NoTag

\* The workflow tags the commit with the emitted tag; the commit is on the
\* reference branch (merged) or on a branch not yet merged into it.
CreateTag(merged) ==
    /\ Emitted
    /\ tag \notin tags
    /\ Cardinality(tags) < MaxTags
    /\ Len(tag) = 4 => tag[4] <= MaxDev
    /\ tags' = tags \cup {tag}
    /\ reachable' = IF merged THEN reachable \cup {tag} ELSE reachable
    /\ Exited
    /\ UNCHANGED registry

\* A branch carrying a tag is merged into the reference branch.
Land(t) ==
    /\ pc \in {"done", "idle"}
    /\ t \in tags \ reachable
    /\ reachable' = reachable \cup {t}
    /\ Exited
    /\ UNCHANGED <<tags, registry>>

\* The workflow publishes the pre-release it built to the registry.
Publish ==
    /\ Emitted
    /\ Len(tag) = 4
    /\ tag[4] <= MaxDev
    /\ TagVersion(tag) \notin registry
    /\ Cardinality(registry) < MaxPublished
    /\ registry' = registry \cup {TagVersion(tag)}
    /\ Exited
    /\ UNCHANGED <<tags, reachable>>

Next ==
    \/ \E ctx \in BOOLEAN, n \in 0..MaxPkgs : StartRun(ctx, n)
    \/ \E text \in Texts : ValidatePackage(text)
    \/ Reconcile
    \/ \E reg \in RegStatuses : Emit(reg)
    \/ \E merged \in BOOLEAN : CreateTag(merged)
    \/ \E t \in tags : Land(t)
    \/ Publish

Spec == Init /\ [][Next]_vars

\* ------------------------------------------------- release-state resolution
\* Runs started on any repository: tag names matching the pattern or not,
\* merged into the reference or not.
TagNames ==
    {<<M, m, p>> : M \in Comps, m \in Comps, p \in Comps}
        \cup {<<M, m, p, d>> : M \in Comps, m \in Comps, p \in Comps, d \in 0..MaxDev}
        \cup {<<M, m>> : M \in Comps, m \in Comps}

RECURSIVE SubsetsUpTo(_, _)
SubsetsUpTo(S, k) ==
    IF k = 0 THEN {{}}
    ELSE LET P == SubsetsUpTo(S, k - 1)
         IN  P \cup {q \cup {x} : q \in P, x \in S}

InitResolve ==
    /\ vcheck = VcheckStart
    /\ balena = BalenaStart
    /\ earlier = NoOutcome
    /\ tags \in SubsetsUpTo(TagNames, MaxNames)
    /\ reachable \in SUBSET tags
    /\ registry = {}
    /\ pc = "idle" /\ isPr = TRUE /\ gitOk = TRUE /\ regStatus = "unread"
    /\ npkgs = 0 /\ idx = 1 /\ main_v = Zero
    /\ declared = <<>> /\ failures = <<>> /\ rows = <<>>
    /\ proposed_bases = {} /\ tag = NoTag /\ exitCode = Running

NextResolve ==
    \/ \E ctx \in BOOLEAN, n \in 0..MaxPkgs : StartRun(ctx, n)
    \/ \E t \in tags : Land(t)

SpecResolve == InitResolve /\ [][NextResolve]_vars

\* ------------------------------------------------------ history unavailable
\* Runs whose git calls all fail, in the same workflow as Spec.
NextHistoryDown ==
    \/ \E ctx \in BOOLEAN, n \in 0..MaxPkgs : StartRunGitFails(ctx, n)
    \/ \E text \in Texts : ValidatePackage(text)
    \/ Reconcile
    \/ \E reg \in RegStatuses : Emit(reg)
    \/ \E merged \in BOOLEAN : CreateTag(merged)
    \/ \E t \in tags : Land(t)
    \/ Publish

SpecHistoryDown == Init /\ [][NextHistoryDown]_vars

\* -------------------------------------------------- scripts/version_check.py
\* The state of check_semver.py, which the sibling validators never touch.
semver_vars == <<tags, reachable, registry, pc, isPr, gitOk, regStatus, npkgs, idx,
                 main_v, declared, failures, rows, proposed_bases, tag, exitCode,
                 earlier>>

Fields == 0..MaxField

\* data["version"] of a version.json: {"major": .., "minor": .., "patch": ..}
JsonVersions == {[major |-> a, minor |-> b, patch |-> c] : a \in Fields, b \in Fields, c \in Fields}

\* A plausible slip: the lower fields are not required to be reset.
compare_versions_without_reset(old, new) ==
    \/ new.major = old.major + 1
    \/ new.major = old.major /\ new.minor = old.minor + 1
    \/ new.major = old.major /\ new.minor = old.minor /\ new.patch = old.patch + 1

compare_versions(old, new) ==
    \/ new.major = old.major + 1 /\ new.minor = 0 /\ new.patch = 0
    \/ new.major = old.major /\ new.minor = old.minor + 1 /\ new.patch = 0
    \/ new.major = old.major /\ new.minor = old.minor /\ new.patch = old.patch + 1

\* f"Release_{major}_{minor}_{patch}" as the tuple of its three numbers
ReleaseTag(v) == <<v.major, v.minor, v.patch>>

\* main(): load_version_from_file, then load_version_from_main; each exits 1
\* when it cannot read.
VcheckLoad(cur, mn) ==
    /\ vcheck.pc = "start"
    /\ vcheck' =
         IF cur = NoJson
         THEN [vcheck EXCEPT !.pc = "done", !.exit = 1]
         ELSE IF mn = NoJson
         THEN [vcheck EXCEPT !.pc = "done", !.exit = 1, !.current_version = cur]
         ELSE [vcheck EXCEPT !.pc = "loaded", !.current_version = cur, !.main_version = mn]
    /\ UNCHANGED <<semver_vars, balena>>

\* main(): compare_versions, sys.exit(1) or the tag appended to GITHUB_OUTPUT
\* when that variable is set.
VcheckMain(github_output) ==
    /\ vcheck.pc = "loaded"
    /\ vcheck' =
         IF ~compare_versions(vcheck.main_version, vcheck.current_version)
         THEN [vcheck EXCEPT !.pc = "done", !.exit = 1]
         ELSE [vcheck EXCEPT !.pc = "done", !.exit = 0,
                             !.tag = IF github_output
                                     THEN ReleaseTag(vcheck.current_version)
                                     ELSE NoTag]
    /\ UNCHANGED <<semver_vars, balena>>

NextVersionCheck ==
    \/ \E cur \in JsonVersions \cup {NoJson}, mn \in JsonVersions \cup {NoJson} :
           VcheckLoad(cur, mn)
    \/ \E github_output \in BOOLEAN : VcheckMain(github_output)

SpecVersionCheck == Init /\ [][NextVersionCheck]_vars

\* ---------------------- actions/version-balena/scripts/check_version_bump.py
VersionLines ==
    {Content("ver", a, b, c, padded) :
        a \in Fields, b \in Fields, c \in Fields, padded \in BOOLEAN}

BaseContents ==
    {Content(k, -1, -1, -1, FALSE) : k \in {"missing", "error", "noversion"}}
        \cup VersionLines

HeadContents ==
    {Content(k, -1, -1, -1, FALSE) : k \in {"error", "noversion"}} \cup VersionLines

\* parse_semver: tuple(int(part) for part in match.groups())
parse_semver(version) == <<version.major, version.minor, version.patch>>

\* Python's tuple `>` on (major, minor, patch)
TupleGreater(a, b) ==
    \/ a[1] > b[1]
    \/ a[1] = b[1] /\ a[2] > b[2]
    \/ a[1] = b[1] /\ a[2] = b[2] /\ a[3] > b[3]

\* A plausible slip: `if new >= old: return 1`, an unchanged version passes.
balena_compare_versions_or_equal(old, new) ==
    IF new = old \/ TupleGreater(new, old) THEN 1 ELSE -1

\* compare_versions of check_version_bump.py
balena_compare_versions(old, new) ==
    IF new = old THEN 0
    ELSE IF TupleGreater(new, old) THEN 1
    ELSE -1

\* main(): the two run_git_show calls; the base may be missing, any other
\* failure exits 1.
BalenaRead(base, head) ==
    /\ balena.pc = "start"
    /\ balena' =
         IF base.kind = "error"
         THEN [balena EXCEPT !.pc = "done", !.exit = 1, !.base_content = base]
         ELSE IF head.kind = "error"
         THEN [balena EXCEPT !.pc = "done", !.exit = 1,
                             !.base_content = base, !.head_content = head]
         ELSE [balena EXCEPT !.pc = "read", !.base_content = base, !.head_content = head]
    /\ UNCHANGED <<semver_vars, vcheck>>

\* main() from extract_version_from_content(head_content) to sys.exit
BalenaMain ==
    /\ balena.pc = "read"
    /\ LET base == balena.base_content
           head == balena.head_content
           fail == [balena EXCEPT !.pc = "done", !.exit = 1]
           pass == [balena EXCEPT !.pc = "done", !.exit = 0, !.output = head]
       IN  balena' =
             IF head.kind # "ver" THEN fail
             ELSE IF base.kind = "missing" THEN pass
             ELSE IF base.kind # "ver" THEN fail
             ELSE IF balena_compare_versions(parse_semver(base), parse_semver(head)) < 0
             THEN fail
             ELSE IF balena_compare_versions(parse_semver(base), parse_semver(head)) = 0
             THEN fail
             ELSE pass
    /\ UNCHANGED <<semver_vars, vcheck>>

NextBalena ==
    \/ \E base \in BaseContents, head \in HeadContents : BalenaRead(base, head)
    \/ BalenaMain

SpecBalena == Init /\ [][NextBalena]_vars

\* ----------------------------------------------------------- interleaved runs
\* Two pull-request runs of one package each: the first has written its tag to
\* its workflow's output, and the workflow may still have to create it when the
\* second run reads the tags.  A run reads and never writes, so the steps of
\* two runs interleave to the same result as one run after the other.
HoldOutput ==
    /\ pc = "done" /\ isPr /\ exitCode = 0
    /\ earlier = NoOutcome
    /\ earlier' = Outcome(tag, tags, regStatus, registry)
    /\ UNCHANGED <<vcheck, balena, tags, reachable, registry, pc, isPr, gitOk, regStatus,
                   npkgs, idx, main_v, declared, failures, rows, proposed_bases, tag,
                   exitCode>>

NextInterleaved ==
    \/ StartRun(TRUE, 1)
    \/ \E text \in Texts : ValidatePackage(text)
    \/ Reconcile
    \/ \E reg \in RegStatuses : Emit(reg)
    \/ HoldOutput
    \/ \E merged \in BOOLEAN : CreateTag(merged)
    \/ \E t \in tags : Land(t)
    \/ Publish

SpecInterleaved == Init /\ [][NextInterleaved]_vars

\* ------------------------------------------------------------------ claims
\* The three one-step bumps of a release base (M, m, p).
OneStepBases(mv) ==
    { Ver(mv.major + 1, 0, 0, NoDev),
      Ver(mv.major, mv.minor + 1, 0, NoDev),
      Ver(mv.major, mv.minor, mv.micro + 1, NoDev) }

Rows == {rows[i] : i \in 1..Len(rows)}
Failures == {failures[i] : i \in 1..Len(failures)}
HasDevTag(base) == \E t \in tags : Len(t) = 4 /\ BaseOf(TagVersion(t)) = base
HasFinalTag(base) == \E t \in tags : Len(t) = 3 /\ TagVersion(t) = base

\* C1 as stated: in merge-to-main context with a final release state, a
\* final-release proposal is accepted iff its base is one of the three one-step
\* bumps of the release base, whatever the tag set is.
C1_Original ==
    \A r \in Rows :
        (~isPr /\ ~IsDev(r.main_v) /\ ~IsDev(r.pr_v))
            => (r.ok <=> BaseOf(r.pr_v) \in OneStepBases(r.main_v))

\* C1 amended: in merge-to-main context with a final release state, a
\* final-release proposal is accepted iff its base is one of the three one-step
\* bumps, or equals the release base while that base has a dev tag and no final tag.
C1_MergeFinalOneStepOrFinish ==
    \A r \in Rows :
        (~isPr /\ ~IsDev(r.main_v) /\ ~IsDev(r.pr_v))
            => (r.ok <=> \/ BaseOf(r.pr_v) \in OneStepBases(r.main_v)
                         \/ /\ BaseOf(r.pr_v) = BaseOf(r.main_v)
                            /\ HasDevTag(BaseOf(r.pr_v))
                            /\ ~HasFinalTag(BaseOf(r.pr_v)))

\* A merge run on a final release state with a tag that accepts a one-step bump
\* and rejects a base two steps away.
C1_Witness ==
    /\ ~isPr /\ pc = "done" /\ main_v = Ver(0, 1, 0, NoDev)
    /\ \E r \in Rows : r.ok /\ r.pr_v = Ver(1, 0, 0, NoDev)
    /\ \E r \in Rows : ~r.ok /\ r.pr_v = Ver(1, 1, 0, NoDev)

\* C2 as stated: in both contexts every proposed version v <= release state under
\* the version order is rejected.
C2_Original ==
    \A r \in Rows : VLeq(r.pr_v, r.main_v) => ~r.ok

\* C2 amended: in both contexts every proposal whose base is below the release
\* base is rejected, and so is a proposal on the release base when the release
\* state is a final release whose final tag exists.
C2_LowerBaseRejected ==
    \A r \in Rows :
        /\ VLess(BaseOf(r.pr_v), BaseOf(r.main_v)) => ~r.ok
        /\ (BaseOf(r.pr_v) = BaseOf(r.main_v) /\ ~IsDev(r.main_v)
               /\ HasFinalTag(BaseOf(r.main_v))) => ~r.ok

\* A proposal below the release base and a proposal on a released base, each rejected.
C2_Witness ==
    /\ pc = "done" /\ main_v = Ver(0, 1, 0, NoDev) /\ exitCode = 1
    /\ \E r \in Rows : ~r.ok /\ r.pr_v = Ver(0, 0, 1, NoDev)
    /\ \E r \in Rows : ~r.ok /\ r.pr_v = Ver(0, 1, 0, NoDev)

\* C3: in merge-to-main context a proposal carrying a dev suffix is rejected
\* whatever the release state and tags are, the run fails and no tag is emitted.
C3_PreReleaseOnMergeRejected ==
    (~isPr /\ \E r \in Rows : IsDev(r.pr_v)) =>
        /\ \A r \in Rows : IsDev(r.pr_v) => ~r.ok
        /\ tag = NoTag
        /\ pc # "emit"
        /\ pc = "done" => exitCode = 1

\* Release state v1.0.0, a merge proposes 1.1.0.dev0: the run has failed.
C3_Witness ==
    /\ ~isPr /\ pc = "done" /\ exitCode = 1 /\ tag = NoTag
    /\ main_v = Ver(1, 0, 0, NoDev)
    /\ \E r \in Rows : r.pr_v = Ver(1, 1, 0, 0) /\ ~r.ok

\* K is the highest dev number known for the base of the release state: no tag
\* and no published version of that base carries a higher one.
HighestKnownDev(mv) ==
    /\ \A t \in tags : IsDevTagOf(t, BaseOf(mv)) => t[4] <= mv.dev
    /\ \A v \in registry : (IsDev(v) /\ BaseOf(v) = BaseOf(mv)) => v.dev <= mv.dev

\* C4 as stated: in pull-request context with a pre-release release state B.devK
\* every proposal on base B is accepted, and the run renders vB.dev(K+1) when K is
\* the highest dev number known for B.
C4_Original ==
    (isPr /\ IsDev(main_v)) =>
        /\ \A r \in Rows : BaseOf(r.pr_v) = BaseOf(r.main_v) => r.ok
        /\ (pc = "done" /\ exitCode = 0 /\ HighestKnownDev(main_v))
               => tag = DevTag(BaseOf(main_v), main_v.dev + 1)

\* Dev continuation: the release state is a pre-release of the proposed base.
DevContinuation(r) == IsDev(r.main_v) /\ BaseOf(r.pr_v) = BaseOf(r.main_v)

\* Bootstrap to the same base: final release state on the proposed base, no final tag.
BootstrapSameBase(r) ==
    /\ ~IsDev(r.main_v)
    /\ BaseOf(r.pr_v) = BaseOf(r.main_v)
    /\ ~HasFinalTag(BaseOf(r.pr_v))

\* C5 as stated: in pull-request context, when neither dev continuation nor
\* bootstrap-to-same-base applies, a proposal is accepted iff its base is a
\* one-step bump of the release base, for final and pre-release release states alike.
C5_Original ==
    \A r \in Rows :
        (isPr /\ ~DevContinuation(r) /\ ~BootstrapSameBase(r))
            => (r.ok <=> BaseOf(r.pr_v) \in OneStepBases(r.main_v))

\* C6: in pull-request context with a final release state of base B, a proposal
\* on base B is accepted iff no final tag vB exists in the tag set.
C6_SameBaseIffNoFinalTag ==
    \A r \in Rows :
        (isPr /\ ~IsDev(r.main_v) /\ BaseOf(r.pr_v) = BaseOf(r.main_v))
            => (r.ok <=> ~HasFinalTag(BaseOf(r.main_v)))

\* A pull-request run on release state 0.0.0 (nothing merged) whose two packages
\* propose 0.0.0 while the repository already holds a tag: both accepted.
C6_Witness ==
    /\ isPr /\ pc = "done" /\ exitCode = 0 /\ tags # {}
    /\ main_v = Zero /\ Len(rows) = 2
    /\ \A r \in Rows : r.ok /\ BaseOf(r.pr_v) = Zero

\* The case of C7: merge context, final proposal on the release base, which has a
\* dev tag and no final tag.
FinishesDevCycle(r) ==
    /\ ~isPr /\ ~IsDev(r.pr_v)
    /\ BaseOf(r.pr_v) = BaseOf(r.main_v)
    /\ HasDevTag(BaseOf(r.pr_v))
    /\ ~HasFinalTag(BaseOf(r.pr_v))

\* C7: in merge-to-main context a final-release proposal on the release base is
\* accepted when that base has a dev tag and no final tag, and a successful run
\* renders the final tag of that base.
C7_DevCycleFinish ==
    /\ \A r \in Rows : FinishesDevCycle(r) => r.ok
    /\ (pc = "done" /\ exitCode = 0 /\ \E r \in Rows : FinishesDevCycle(r))
           => tag = FinalTag(BaseOf(main_v))

\* Release state v1.0.0.dev1, a merge proposes 1.0.0: tag v1.0.0.
C7_Witness ==
    /\ ~isPr /\ pc = "done" /\ exitCode = 0
    /\ main_v = Ver(1, 0, 0, 1)
    /\ \E r \in Rows : FinishesDevCycle(r) /\ r.pr_v = Ver(1, 0, 0, NoDev)
    /\ tag = <<1, 0, 0>>

\* C8: in merge-to-main context with a pre-release release state B.devK the
\* accepted final-release bases are exactly B and the three one-step bumps of B.
C8_MergeOnPreRelease ==
    \A r \in Rows :
        (~isPr /\ IsDev(r.main_v) /\ ~IsDev(r.pr_v))
            => (r.ok <=> BaseOf(r.pr_v) \in {BaseOf(r.main_v)} \cup OneStepBases(r.main_v))

\* Release state v0.0.0.dev0, a merge whose packages propose the one-step bump
\* 0.1.0 (accepted) and 1.1.0 (rejected).
C8_Witness ==
    /\ ~isPr /\ pc = "done" /\ main_v = Ver(0, 0, 0, 0)
    /\ \E r \in Rows : r.ok /\ r.pr_v = Ver(0, 1, 0, NoDev)
    /\ \E r \in Rows : ~r.ok /\ r.pr_v = Ver(1, 1, 0, NoDev)

\* The packages of the run whose declared version did not parse or was rejected.
Unparsable == {i \in 1..Len(declared) : declared[i].kind # "ver"}
Rejected == {r.pkg : r \in {x \in Rows : ~x.ok}}
ReasonsFor(i) == {k \in 1..Len(failures) : i \in failures[k].pkgs}

\* C9: if any package is rejected or fails to parse, every package has still been
\* validated, the run fails without a tag and the failures hold one reason for
\* every such package.
C9_BatchReporting ==
    /\ (pc = "emit" \/ (pc = "done" /\ exitCode = 0)) => Unparsable \cup Rejected = {}
    /\ (pc = "done" /\ npkgs > 0 /\ Unparsable \cup Rejected # {}) =>
           /\ exitCode = 1
           /\ tag = NoTag
           /\ Len(declared) = npkgs
           /\ \A i \in Unparsable \cup Rejected : Cardinality(ReasonsFor(i)) = 1

\* The first package does not parse, the second is rejected: two reasons.
C9_Witness ==
    /\ pc = "done" /\ npkgs = 2 /\ exitCode = 1
    /\ Unparsable = {1} /\ Rejected = {2}
    /\ Len(failures) = 2

\* Every package of the run was accepted.
AllAccepted == npkgs > 0 /\ Len(rows) = npkgs /\ \A r \in Rows : r.ok

\* C10 as stated: all packages accepted on more than one base: the run fails
\* without a tag, with a multiple-bases error naming every distinct base and the
\* packages proposing each.
C10_Original ==
    (pc = "done" /\ AllAccepted /\ Cardinality({r.base : r \in Rows}) > 1) =>
        /\ exitCode = 1
        /\ tag = NoTag
        /\ \E f \in Failures :
               /\ f.kind = "multiple_bases"
               /\ f.bases = {r.base : r \in Rows}
               /\ f.pkgs = {r.pkg : r \in Rows}

\* C10 amended: all packages accepted on more than one base: the run fails without
\* a tag; its only failure is the multiple-bases error, which names every distinct
\* base and no package; the rows printed with the report give every package with
\* the base it proposes.
C10_MultipleBases ==
    (pc = "done" /\ AllAccepted /\ Cardinality({r.base : r \in Rows}) > 1) =>
        /\ exitCode = 1
        /\ tag = NoTag
        /\ Len(failures) = 1
        /\ failures[1].kind = "multiple_bases"
        /\ failures[1].bases = {r.base : r \in Rows}
        /\ failures[1].pkgs = {}
        /\ \A i \in 1..npkgs : \E r \in Rows : r.pkg = i /\ r.base \in failures[1].bases

\* Release state 0.0.0, package 1 on 0.1.0 and package 2 on 1.0.0.
C10_Witness ==
    /\ pc = "done" /\ exitCode = 1 /\ Len(rows) = 2
    /\ rows[1].ok /\ rows[1].base = Ver(0, 1, 0, NoDev)
    /\ rows[2].ok /\ rows[2].base = Ver(1, 0, 0, NoDev)

\* The agreed base of a run that reached the tag: the one proposed base.
AgreedBase == CHOOSE b \in proposed_bases : TRUE

\* Dev numbers used for a base: by the release state, by local tags, by the registry.
ReleaseDevs(base, mv) == IF IsDev(mv) /\ BaseOf(mv) = base THEN {mv.dev} ELSE {}
LocalTagDevs(base) == {t[4] : t \in {u \in tags : Len(u) = 4 /\ BaseOf(TagVersion(u)) = base}}
RegistryDevs(base) == {v.dev : v \in {w \in registry : IsDev(w) /\ BaseOf(w) = base}}

\* 1 + the maximum of a set of dev numbers, 0 for the empty set.
NextAfter(S) == IF S = {} THEN 0 ELSE 1 + (CHOOSE n \in S : \A k \in S : k <= n)

\* C11 as stated: the allocated dev number is 1 + the maximum over the release
\* state's dev number, the local dev tags and the registry's pre-releases of the
\* base taken together (the registry counted when its query succeeds).
C11_Original ==
    (pc = "done" /\ isPr /\ exitCode = 0 /\ regStatus = "ok") =>
        tag = DevTag(AgreedBase,
                     NextAfter(ReleaseDevs(AgreedBase, main_v)
                               \cup LocalTagDevs(AgreedBase)
                               \cup RegistryDevs(AgreedBase)))

\* C12: when the registry is not configured or its query fails, the run still
\* succeeds and its dev number is the local computation: 1 + the maximum of the
\* release state's dev number on the base and the local dev tags of the base.
C12_RegistryFallback ==
    (pc = "done" /\ isPr /\ regStatus \in {"unconfigured", "error"}) =>
        /\ exitCode = 0
        /\ tag = DevTag(AgreedBase,
                        NextAfter(ReleaseDevs(AgreedBase, main_v)
                                  \cup LocalTagDevs(AgreedBase)))

\* The registry query fails while the base has a merged dev tag: the tag comes
\* from the local scan.
C12_Witness ==
    /\ pc = "done" /\ isPr /\ regStatus = "error" /\ exitCode = 0
    /\ main_v = Ver(0, 0, 0, 0)
    /\ tag = <<0, 0, 0, 1>>

\* C13 as stated: once the tag vBASE.devN a pull-request run rendered has been
\* created, the next allocation for BASE gives N + 1, whatever the registry
\* answers; with the tags and the registry unchanged it gives N again.
C13_Original ==
    [][ /\ (Emitted /\ Len(tag) = 4 /\ tag \notin tags /\ tags' = tags \cup {tag} /\ isPr')
            => \A reg \in RegStatuses :
                   render_tag(BaseOf(TagVersion(tag)), latest_version_on_main, reg)'
                       = DevTag(BaseOf(TagVersion(tag)), tag[4] + 1)
        /\ (pc = "done" /\ exitCode = 0 /\ isPr /\ pc' = "loop" /\ isPr')
            => render_tag(AgreedBase, main_v', regStatus) = tag
      ]_vars

\* The versions of the tags that match vX.Y.Z[.devN] and are reachable from the reference.
ReachableVersions == {TagVersion(t) : t \in {u \in tags \cap reachable : Len(u) = 3 \/ Len(u) = 4}}

GitErrorExit == 2

\* C16 as stated: a run that cannot query the history ends at once with the
\* fatal exit code, before any package is validated, and emits no tag.
C16_Original ==
    (pc \in {"loop", "reconcile", "emit", "done"} /\ ~gitOk) =>
        /\ pc = "done"
        /\ exitCode = GitErrorExit
        /\ declared = <<>>
        /\ tag = NoTag

\* C14 as stated: with the tag set, the reachable set, the registry contents, the
\* proposals and the context given, the tag of the run is determined: a run about
\* to render its tag renders the same tag whatever else it meets.
C14_Original ==
    (pc = "emit" /\ isPr /\ proposed_bases # {}) =>
        \A r1 \in RegStatuses, r2 \in RegStatuses :
            render_tag(AgreedBase, main_v, r1) = render_tag(AgreedBase, main_v, r2)

\* The result of a finished run as a function of the repository it ran on, its
\* proposals, its context and what its registry query met.
RunOutcome ==
    LET mv == IF ReachableVersions = {} THEN Zero ELSE VMax(ReachableVersions)
        ok(i) == declared[i].kind = "ver" /\ rules_ok(declared[i].v, mv)
        bases == {BaseOf(declared[i].v) : i \in {j \in 1..npkgs : ok(j)}}
        success == (\A i \in 1..npkgs : ok(i)) /\ Cardinality(bases) = 1
    IN  /\ main_v = mv
        /\ Len(declared) = npkgs
        /\ \A i \in 1..npkgs :
               IF declared[i].kind = "ver"
               THEN {r \in Rows : r.pkg = i} = {Row(i, mv, declared[i].v, ok(i))}
               ELSE {r \in Rows : r.pkg = i} = {}
        /\ proposed_bases = bases
        /\ exitCode = IF success THEN 0 ELSE 1
        /\ tag = IF success
                 THEN render_tag(CHOOSE b \in bases : TRUE, mv, regStatus)
                 ELSE NoTag

\* C14 amended: the decisions, the result and the tag of a run are a function of
\* the tag set, the reachable set, the registry contents, the proposals, the
\* context and whether the registry query succeeded (checked where a finished
\* run is left); no step of a run changes the tags, the reachable set, the
\* registry, the context or a proposal read.
C14_Determinism ==
    [][ /\ pc' \in {"loop", "reconcile", "emit", "done"} => UNCHANGED <<tags, reachable, registry>>
        /\ pc \in {"loop", "reconcile", "emit"} =>
               /\ isPr' = isPr /\ npkgs' = npkgs
               /\ SubSeq(declared', 1, Len(declared)) = declared
        /\ (pc = "done" /\ npkgs > 0) => RunOutcome
      ]_vars

\* Two pull-request runs would differ here: the registry lists 0.0.0.dev0, no
\* tag exists; this run met a failing registry query and rendered v0.0.0.dev0.
C14_Witness ==
    /\ pc = "done" /\ isPr /\ exitCode = 0
    /\ regStatus = "error"
    /\ registry = {Ver(0, 0, 0, 0)}
    /\ tag = <<0, 0, 0, 0>>

\* C17: the tag of a successful run is v{M}.{m}.{p} of the one agreed base in
\* merge context, where the registry is not read, and v{M}.{m}.{p}.dev{N} in
\* pull-request context, N being the registry's next dev number when its query
\* succeeds and the local next dev number otherwise.
C17_TagForm ==
    (pc = "done" /\ exitCode = 0) =>
        /\ Cardinality(proposed_bases) = 1
        /\ IF isPr
           THEN /\ regStatus \in RegStatuses
                /\ tag = DevTag(AgreedBase,
                                IF regStatus = "ok"
                                THEN NextAfter(RegistryDevs(AgreedBase))
                                ELSE NextAfter(ReleaseDevs(AgreedBase, main_v)
                                               \cup LocalTagDevs(AgreedBase)))
           ELSE /\ regStatus = "unread"
                /\ tag = FinalTag(AgreedBase)

\* A merge finishing the dev cycle of 0.0.0: dev tags of the base exist, the tag
\* has no dev suffix.
C17_Witness ==
    /\ pc = "done" /\ ~isPr /\ exitCode = 0
    /\ <<0, 0, 0, 0>> \in tags
    /\ tag = <<0, 0, 0>>

\* C18: a run that has not finished has written no tag; a finished run is a
\* success (exit 0, one tag written, no failure) or a failure (exit 1, at least
\* one reason printed, no tag written).
C18_Outcome ==
    /\ pc \in {"loop", "reconcile", "emit"} => (tag = NoTag /\ exitCode = Running)
    /\ pc = "done" =>
           \/ exitCode = 0 /\ Len(tag) \in {3, 4} /\ failures = <<>>
           \/ exitCode = 1 /\ tag = NoTag /\ stderr_reasons # <<>>

\* One package accepted, the other rejected: a base was proposed but no tag written.
C18_Witness ==
    /\ pc = "done" /\ exitCode = 1 /\ tag = NoTag
    /\ proposed_bases # {}
    /\ Len(failures) = 1

\* The failures of a rejected declaration.
InvalidKinds == {"invalid_pr", "invalid_merge"}

\* C19 as stated: every rejection names the three one-step candidates of the
\* release base.
C19_Original ==
    \A f \in Failures : f.kind \in InvalidKinds => f.bases = OneStepBases(f.main_v)

\* C19 amended: every rejection carries one reason that names the package, the
\* release state and the declared version and is the fixed text of the run's
\* context (the pull-request rules or the merge rules); it names no single rule
\* and lists no candidate base.
C19_RejectionReason ==
    \A r \in Rows : ~r.ok =>
        {f \in Failures : r.pkg \in f.pkgs} =
            {[kind |-> IF isPr THEN "invalid_pr" ELSE "invalid_merge",
              pkgs |-> {r.pkg}, main_v |-> main_v, pr_v |-> r.pr_v, bases |-> {}]}

\* A merge run rejecting a skipped version.
C19_Witness ==
    /\ pc = "done" /\ ~isPr /\ exitCode = 1
    /\ \E r \in Rows : ~r.ok /\ r.pr_v = Ver(1, 1, 0, NoDev) /\ r.main_v = Zero

\* The packages of the run whose file holds no __version__ line.
Undeclared == {i \in 1..Len(declared) : declared[i].kind = "none"}

\* C20 as stated: a package without a declared version does not fail the run: no
\* reason is recorded for it and the run does not end in failure because of it.
C20_Original ==
    \A i \in Undeclared : ReasonsFor(i) = {}

\* C20 amended: a package without a declared version does not stop the loop: it
\* is not validated against any release state, it adds one read-failure reason,
\* the remaining packages are still read, and the run ends with exit 1 and no tag.
C20_UndeclaredFails ==
    /\ \A i \in Undeclared :
           /\ {failures[k] : k \in ReasonsFor(i)} = {ReadFailure(i)}
           /\ \A r \in Rows : r.pkg # i
    /\ (pc = "done" /\ Undeclared # {}) =>
           /\ Len(declared) = npkgs
           /\ exitCode = 1
           /\ tag = NoTag

\* The first package has no __version__, the second is read and accepted.
C20_Witness ==
    /\ pc = "done" /\ npkgs = 2
    /\ Undeclared = {1}
    /\ \E r \in Rows : r.pkg = 2 /\ r.ok
    /\ exitCode = 1

\* C21: what the run records for a package is fixed by the package's own
\* declaration, the release state, the context and the tag set: an unreadable
\* declaration gives one read failure and no row, a readable one gives one row
\* holding the decision of the context's rules on it and, when accepted, its
\* base; no other package's declaration enters.
C21_PackageIndependence ==
    \A i \in 1..Len(declared) :
        IF declared[i].kind = "ver"
        THEN {r \in Rows : r.pkg = i}
                 = {[pkg |-> i, main_v |-> main_v, pr_v |-> declared[i].v,
                     ok |-> rules_ok(declared[i].v, main_v),
                     base |-> IF rules_ok(declared[i].v, main_v)
                              THEN BaseOf(declared[i].v) ELSE None]}
        ELSE /\ {r \in Rows : r.pkg = i} = {}
             /\ {failures[k] : k \in ReasonsFor(i)} = {ReadFailure(i)}

\* Two packages accepted on different bases: each keeps its own decision, only
\* the reconciliation fails.
C21_Witness ==
    /\ pc = "done" /\ npkgs = 2 /\ exitCode = 1
    /\ \A r \in Rows : r.ok
    /\ Cardinality({r.base : r \in Rows}) = 2

\* The major, minor and patch bump of a version.json version.
JsonBumps(old) ==
    {[major |-> old.major + 1, minor |-> 0, patch |-> 0],
     [major |-> old.major, minor |-> old.minor + 1, patch |-> 0],
     [major |-> old.major, minor |-> old.minor, patch |-> old.patch + 1]}

\* C22: version_check.py passes (exit 0) iff the current version is the major,
\* the minor or the patch bump of main's version, and fails with exit 1 on every
\* other version (equal, lower, skipped, several bumps at once); the tag
\* Release_{major}_{minor}_{patch} of the current version is written only by a
\* run that passed.
C22_OneStepBump ==
    /\ vcheck.pc # "done" => vcheck.tag = NoTag
    /\ (vcheck.pc = "done" /\ vcheck.main_version # NoJson) =>
           /\ vcheck.exit = IF vcheck.current_version \in JsonBumps(vcheck.main_version)
                            THEN 0 ELSE 1
           /\ vcheck.tag # NoTag =>
                  /\ vcheck.exit = 0
                  /\ vcheck.tag = <<vcheck.current_version.major,
                                    vcheck.current_version.minor,
                                    vcheck.current_version.patch>>
    /\ (vcheck.pc = "done" /\ vcheck.main_version = NoJson) =>
           (vcheck.exit = 1 /\ vcheck.tag = NoTag)

\* 0.1.1 on main, 0.2.0 proposed: the minor bump with the patch reset passes.
C22_Witness ==
    /\ vcheck.pc = "done" /\ vcheck.exit = 0
    /\ vcheck.main_version = [major |-> 0, minor |-> 1, patch |-> 1]
    /\ vcheck.tag = <<0, 2, 0>>

\* head above base as (major, minor, patch), field by field.
HeadAboveBase ==
    LET b == balena.base_content
        h == balena.head_content
    IN  \/ h.major > b.major
        \/ h.major = b.major /\ h.minor > b.minor
        \/ h.major = b.major /\ h.minor = b.minor /\ h.patch > b.patch

\* C23: check_version_bump.py with both versions read passes (exit 0, the head
\* version string printed as VERSION_OUTPUT) iff head is above base as (major,
\* minor, patch), and otherwise exits 1 printing no VERSION_OUTPUT; with the base
\* file missing every head version passes; no other run prints VERSION_OUTPUT.
C23_BalenaBump ==
    /\ balena.pc # "done" => balena.output = NoContent
    /\ balena.pc = "done" =>
           IF balena.head_content.kind = "ver"
              /\ \/ balena.base_content.kind = "missing"
                 \/ balena.base_content.kind = "ver" /\ HeadAboveBase
           THEN balena.exit = 0 /\ balena.output = balena.head_content
           ELSE balena.exit = 1 /\ balena.output = NoContent

\* Base 1.0.0, head 01.0.0: the same tuple, no bump, in spite of the other string.
C23_Witness ==
    /\ balena.pc = "done" /\ balena.exit = 1
    /\ balena.base_content = Content("ver", 1, 0, 0, FALSE)
    /\ balena.head_content = Content("ver", 1, 0, 0, TRUE)

\* C24: when the registry query of a pull-request run succeeds, the dev number
\* of its tag is 1 + the largest devN the registry lists for the agreed base of
\* the primary package, 0 when it lists none, whatever the local dev tags and
\* the release state are.
C24_RegistryAlone ==
    (pc = "done" /\ isPr /\ exitCode = 0 /\ regStatus = "ok") =>
        /\ Len(tag) = 4
        /\ BaseOf(TagVersion(tag)) = AgreedBase
        /\ tag[4] = NextAfter(RegistryDevs(AgreedBase))

\* The release state is 0.0.0.dev0, the registry lists nothing: the run renders
\* v0.0.0.dev0 again.
C24_Witness ==
    /\ pc = "done" /\ isPr /\ exitCode = 0 /\ regStatus = "ok"
    /\ main_v = Ver(0, 0, 0, 0)
    /\ registry = {}
    /\ tag = <<0, 0, 0, 0>>

\* C25: a run that reaches the selection of the agreed base has found a package,
\* recorded no failure and proposed exactly one base; the selection never meets
\* an empty set, so a run with packages that ends in failure has a failure recorded.
C25_OneAgreedBase ==
    /\ pc = "emit" =>
           /\ npkgs > 0
           /\ failures = <<>>
           /\ Cardinality(proposed_bases) = 1
    /\ (pc = "done" /\ npkgs > 0 /\ exitCode # 0) => failures # <<>>

\* Two packages agreeing on the base 0.0.1 reach the selection.
C25_Witness ==
    /\ pc = "emit" /\ npkgs = 2
    /\ proposed_bases = {Ver(0, 0, 1, NoDev)}

\* C26 as stated: the tag of every successful run denotes a version strictly
\* greater than the release state of the run.
C26_Original ==
    (pc = "done" /\ exitCode = 0) => VLess(main_v, TagVersion(tag))

\* C26 amended: the base of the tag of a successful run is never below the
\* release base; the tag is strictly greater than the release state when its
\* base is above the release base, when a merge finishes a pre-release release
\* state, and when a pull request continues a pre-release release state with the
\* registry unavailable.  On the bootstrap release state 0.0.0 a merge renders
\* v0.0.0, equal to it, and a pull request renders v0.0.0.devN, below it.
C26_TagAgainstReleaseState ==
    (pc = "done" /\ exitCode = 0) =>
        LET t == TagVersion(tag)
            above == BaseOf(t) # BaseOf(main_v)
        IN  /\ ~VLess(BaseOf(t), BaseOf(main_v))
            /\ above => VLess(main_v, t)
            /\ (~above /\ IsDev(main_v) /\ ~isPr) => VLess(main_v, t)
            /\ (~above /\ IsDev(main_v) /\ isPr /\ regStatus # "ok") => VLess(main_v, t)
            /\ (~above /\ ~IsDev(main_v)) =>
                   /\ main_v = Zero
                   /\ IF isPr THEN VLess(t, main_v) ELSE t = main_v

\* The bootstrap merge: no tag is reachable, v0.0.0.dev0 exists on a branch, the
\* merge renders v0.0.0.
C26_Witness ==
    /\ pc = "done" /\ ~isPr /\ exitCode = 0
    /\ main_v = Zero
    /\ tag = <<0, 0, 0>>

\* C27: with every tag reachable from the reference and the registry not
\* configured, the tag of a successful run, final or dev, is not in the tag set.
C27_FreshTag ==
    (/\ pc = "done" /\ exitCode = 0
     /\ tags \subseteq reachable
     /\ isPr => regStatus = "unconfigured") =>
        tag \notin tags

\* A pull request continuing 0.0.0.dev0 with the registry not configured gets
\* the unused v0.0.0.dev1.
C27_Witness ==
    /\ pc = "done" /\ isPr /\ exitCode = 0 /\ regStatus = "unconfigured"
    /\ tags = {<<0, 0, 0, 0>>} /\ reachable = tags
    /\ tag = <<0, 0, 0, 1>>

\* C28: in every state the workflow can reach, whatever tags were created and
\* landed since, no run in either context holds an accepted proposal whose base
\* has its final tag reachable from the reference.
C28_ReleasedBaseClosed ==
    \A r \in Rows : r.ok => FinalTag(BaseOf(r.pr_v)) \notin reachable

\* v0.0.0.dev0 and then v0.0.0 were created and landed; a pull request declaring
\* 0.0.0 again is rejected.
C28_Witness ==
    /\ pc = "done" /\ isPr
    /\ reachable = {<<0, 0, 0, 0>>, <<0, 0, 0>>}
    /\ \E r \in Rows : ~r.ok /\ BaseOf(r.pr_v) = Zero

\* C29: in pull-request context the decision on a proposal is the decision on
\* its base: the release base while the release state is a pre-release, else
\* the release base while it has no final tag, else a one-step base; two
\* proposals of a run with the same base get the same decision whatever their
\* dev suffixes, and the tag is the agreed base with the allocated dev number,
\* no suffix of a proposal entering.
C29_BaseOnly ==
    isPr =>
        /\ \A r \in Rows :
               r.ok = IF IsDev(main_v) THEN BaseOf(r.pr_v) = BaseOf(main_v)
                      ELSE IF BaseOf(r.pr_v) = BaseOf(main_v)
                           THEN ~HasFinalTag(BaseOf(main_v))
                           ELSE BaseOf(r.pr_v) \in OneStepBases(main_v)
        /\ \A r1 \in Rows, r2 \in Rows :
               BaseOf(r1.pr_v) = BaseOf(r2.pr_v) => (r1.ok = r2.ok /\ r1.base = r2.base)
        /\ (pc = "done" /\ exitCode = 0) =>
               /\ AgreedBase \in {BaseOf(r.pr_v) : r \in Rows}
               /\ tag = DevTag(AgreedBase,
                               IF regStatus = "ok"
                               THEN NextAfter(RegistryDevs(AgreedBase))
                               ELSE NextAfter(ReleaseDevs(AgreedBase, main_v)
                                              \cup LocalTagDevs(AgreedBase)))

\* One package declares 0.0.1, the other 0.0.1.dev0: both accepted, one tag.
C29_Witness ==
    /\ pc = "done" /\ isPr /\ exitCode = 0
    /\ {r.pr_v : r \in Rows} = {Ver(0, 0, 1, NoDev), Ver(0, 0, 1, 0)}
    /\ tag = <<0, 0, 1, 0>>

\* A pull-request run has rendered a tag on the base of the tag an earlier
\* pull-request run left in its output.
SecondRunOnSameBase ==
    /\ earlier # NoOutcome
    /\ pc = "done" /\ isPr /\ exitCode = 0
    /\ BaseOf(TagVersion(tag)) = BaseOf(TagVersion(earlier.tag))

====
